---- MODULE Spec2Model ----
(***************************************************************************)
(* Model of the reading-roundup catalog: the SQLite tables reading_list    *)
(* and roundup_contents behind one rusqlite connection, the Mutex-guarded  *)
(* axum handlers of src/reading/src/lib.rs that operate on them, and the   *)
(* scanner and bulk insert of src/roundup/src/lib.rs.                      *)
(***************************************************************************)
EXTENDS Integers, Sequences, FiniteSets, TLC

\* Bounds of the model.
MaxOps == 2     \* requests served in one behaviour
MaxLen == 2     \* longest id list, BulkIngest call and directory listing

(***************************************************************************)
(* Values                                                                  *)
(***************************************************************************)

\* Option<T>: None is the empty tuple, Some(x) the 1-tuple.
None == <<>>
Some(x) == <<x>>

Range(s) == {s[i] : i \in 1..Len(s)}

\* Number of positions of s that hold x.
Count(s, x) == Cardinality({i \in 1..Len(s) : s[i] = x})

\* chrono::NaiveDate values, written as their Display form YYYY-MM-DD
\* (format!("{date}")), in ascending order.
DatesAsc == <<"2024-03-01", "2024-03-02">>

Dates == Range(DatesAsc)

\* Rank of a date: the order of the YYYY-MM-DD texts (SQLite's text order).
DateRank(d) == CHOOSE i \in 1..Len(DatesAsc) : DatesAsc[i] = d

\* http::Uri::from_str on the link destinations that occur in the bodies:
\* scheme, authority and the stored path-and-query data (empty when the
\* text ends after the authority); text with a space is rejected.
\* "http://long" stands for an absolute uri with no path that is as long as
\* from_str allows (65534 bytes): it parses, and the text one byte longer
\* that Display gives it ("http://long/") is rejected as too long.
UriParse(s) ==
  CASE s = "http://a"  -> Some([scheme |-> "http", authority |-> "a", pq |-> ""])
    [] s = "http://a/" -> Some([scheme |-> "http", authority |-> "a", pq |-> "/"])
    [] s = "http://b/" -> Some([scheme |-> "http", authority |-> "b", pq |-> "/"])
    [] s = "http://long" -> Some([scheme |-> "http", authority |-> "long", pq |-> ""])
    [] s = "http://long/" -> None
    [] OTHER           -> None

\* Uri::path: an absolute Uri with no path data has path "/".
UriPath(u) == IF u.pq = "" THEN "/" ELSE u.pq

\* Display for Uri (entry.url.to_string()): scheme "://" authority path.
UriToString(u) == u.scheme \o "://" \o u.authority \o UriPath(u)

(***************************************************************************)
(* Body scanner (src/roundup/src/lib.rs)                                   *)
(***************************************************************************)

SeqsUpTo(S, n) == UNION {[1..k -> S] : k \in 0..n}

Text(v) == [kind |-> "Text", url |-> "", children |-> <<>>]
Link(u, c) == [kind |-> "Link", url |-> u, children |-> c]
Node(k, c) == [kind |-> k, url |-> "", children |-> c]

\* The body fragments of the model.
Bodies ==
  {"[A](http://a)", "see <http://a/>", "*[B](http://b/)*", "no link", "[L](http://long)"}

\* markdown::to_mdast with autolinks on, for the bodies of the model.
to_mdast(s) ==
  CASE s = "[A](http://a)" ->
         Node("Root", <<Node("Paragraph", <<Link("http://a", <<Text("A")>>)>>)>>)
    [] s = "see <http://a/>" ->
         Node("Root", <<Node("Paragraph",
              <<Text("see "), Link("http://a/", <<Text("http://a/")>>)>>)>>)
    [] s = "*[B](http://b/)*" ->
         Node("Root", <<Node("Paragraph",
              <<Node("Emphasis", <<Link("http://b/", <<Text("B")>>)>>)>>)>>)
    [] s = "[L](http://long)" ->
         Node("Root", <<Node("Paragraph", <<Link("http://long", <<Text("L")>>)>>)>>)
    [] OTHER ->
         Node("Root", <<Node("Paragraph", <<Text(s)>>)>>)

\* find_url: a Link answers with the parse of its own url; any other node
\* answers with the first child (in order) that yields a url.
RECURSIVE find_url(_)
RECURSIVE find_url_in(_, _)
RECURSIVE find_url_in_first_link(_, _)
\* A slip: the answer of a Link child is returned even when it is None.
find_url_in_first_link(children, i) ==
  IF i > Len(children) THEN None
  ELSE LET v == find_url(children[i])
       IN  IF v # None \/ children[i].kind = "Link" THEN v
           ELSE find_url_in_first_link(children, i + 1)

find_url_in(children, i) ==
  IF i > Len(children) THEN None
  ELSE LET v == find_url(children[i])
       IN  IF v # None THEN v ELSE find_url_in(children, i + 1)

find_url(node) ==
  IF node.kind = "Link" THEN UriParse(node.url)
  ELSE find_url_in(node.children, 1)

\* scan_body once s is parsed to body_ast: Ok(entry) or Err(MissingLink).
scan_ast(date, s, body_ast) ==
  LET url == find_url(body_ast)
  IN  IF url = None
      THEN [ok |-> FALSE, err |-> "MissingLink"]
      ELSE [ok |-> TRUE,
            entry |-> [url |-> url[1], body_text |-> s, original_text |-> s,
                       source_date |-> date, read |-> None]]

\* scan_body: parse s, then look for the link. (The answer is chosen from
\* a one-element set so that body_ast is built once, before find_url walks
\* it.)
scan_body(date, s) ==
  CHOOSE r \in {scan_ast(date, s, body_ast) : body_ast \in {to_mdast(s)}} : TRUE

\* Destinations a Link node of a parsed body can carry: two that parse as a
\* Uri and one that does not.
LinkUrls == {"http://a", "http://b/", "not a uri"}

\* Nodes without node children: a text, or a link around a text.
Leaves == {Text("t")} \cup {Link(u, <<Text("t")>>) : u \in LinkUrls}

\* Nodes that are no links and hold leaves.
Emphases == {Node("Emphasis", c) : c \in SeqsUpTo(Leaves, MaxLen)}

\* The markup trees of the model: a paragraph of leaves and emphases.
Asts ==
  {Node("Root", <<Node("Paragraph", c)>>) : c \in SeqsUpTo(Leaves \cup Emphases, MaxLen)}

\* The nodes of a tree in depth-first pre-order: a node, then the nodes of
\* each child in order.
RECURSIVE PreOrder(_)
RECURSIVE PreOrderOf(_, _)
PreOrderOf(children, i) ==
  IF i > Len(children) THEN <<>>
  ELSE PreOrder(children[i]) \o PreOrderOf(children, i + 1)

PreOrder(node) == <<node>> \o PreOrderOf(node.children, 1)

IsLink(node) == node.kind = "Link"

IsParseableLink(node) == node.kind = "Link" /\ UriParse(node.url) # None

\* The tagged journal lines of the model, each with the date of its file.
JournalLines ==
  { [date |-> "2024-03-01", line |-> "- #reading [A](http://a)"],
    [date |-> "2024-03-02", line |-> "#read: see <http://a/>"],
    [date |-> "2024-03-02", line |-> "#tbr *[B](http://b/)*"] }

\* The lines of the model cut into the pieces ENTRY_REGEX tells apart: a tag
\* (# and reading, read or tbr), a space or colon, and any other text.
Pieces(line) ==
  CASE line = "- #reading [A](http://a)" ->
         <<"- ", "#reading", " ", "[A](http://a)">>
    [] line = "#read: see <http://a/>" ->
         <<"#read", ":", " ", "see <http://a/>">>
    [] line = "#tbr *[B](http://b/)*" ->
         <<"#tbr", " ", "*[B](http://b/)*">>
    [] line = "#reading no link" ->
         <<"#reading", " ", "no link">>
    [] line = "#read [A](http://a) #tbr *[B](http://b/)*" ->
         <<"#read", " ", "[A](http://a)", " ", "#tbr", " ", "*[B](http://b/)*">>
    [] OTHER -> <<line>>

TagPieces == {"#reading", "#read", "#tbr"}

\* The concatenation of the pieces from position i on.
RECURSIVE Concat(_, _)
Concat(pieces, i) ==
  IF i > Len(pieces) THEN "" ELSE pieces[i] \o Concat(pieces, i + 1)

\* [ :]* from position i: the first position that holds no space or colon.
RECURSIVE SkipSeparators(_, _)
SkipSeparators(pieces, i) ==
  IF i <= Len(pieces) /\ pieces[i] \in {" ", ":"}
  THEN SkipSeparators(pieces, i + 1) ELSE i

\* The two capture groups when the tag matched is the piece at position i:
\* the tag without its #, and all that follows the separators after it.
CaptureAt(pieces, i) ==
  [tag |-> CASE pieces[i] = "#reading" -> "reading"
             [] pieces[i] = "#read" -> "read"
             [] pieces[i] = "#tbr" -> "tbr",
   body |-> Concat(pieces, SkipSeparators(pieces, i + 1))]

\* ENTRY_REGEX.captures, "^.*#(reading|read|tbr)[ :]*(.*)$": None for a line
\* with no tag; else the leading .* is greedy and takes all it can, so the
\* tag matched is the last one of the line.
captures(line) ==
  LET pieces == Pieces(line)
      tags == {i \in 1..Len(pieces) : pieces[i] \in TagPieces}
  IN  IF tags = {} THEN None
      ELSE Some(CaptureAt(pieces, CHOOSE i \in tags : \A j \in tags : j <= i))

\* The read state scan_file gives a tag: read, to be read, or unknown.
ReadOfTag(tag) ==
  CASE tag = "read" -> Some(TRUE)
    [] tag = "tbr"  -> Some(FALSE)
    [] OTHER        -> None

\* The body of scan_file's loop for one matching line: the read state from
\* the tag, the entry from scan_body, original_text the whole line.
scan_line(date, line) ==
  LET c == captures(line)[1]
      e == scan_body(date, c.body).entry
  IN  [e EXCEPT !.original_text = line, !.read = ReadOfTag(c.tag)]

\* The entries scan_files can hand to update().
ScannedEntries == {scan_line(l.date, l.line) : l \in JournalLines}

(***************************************************************************)
(* File walker (src/roundup/src/lib.rs): scan_file and scan_files over a   *)
(* directory tree. A directory's children are in the order read_dir yields *)
(* them.                                                                   *)
(***************************************************************************)

File(name, readable, lines) ==
  [kind |-> "file", name |-> name, readable |-> readable, lines |-> lines,
   children |-> <<>>]

Dir(name, readable, children) ==
  [kind |-> "dir", name |-> name, readable |-> readable, lines |-> <<>>,
   children |-> children]

\* A directory entry whose metadata() fails.
Broken(name) ==
  [kind |-> "broken", name |-> name, readable |-> FALSE, lines |-> <<>>,
   children |-> <<>>]

\* Path::file_stem and Path::extension on the names of the model.
file_stem(name) ==
  CASE name = "2024-03-01.md"  -> "2024-03-01"
    [] name = "2024-03-02.md"  -> "2024-03-02"
    [] name = "README.md"      -> "README"
    [] name = "2024-03-01.txt" -> "2024-03-01"
    [] OTHER                   -> name

extension(name) ==
  CASE name \in {"2024-03-01.md", "2024-03-02.md", "README.md"} -> Some("md")
    [] name = "2024-03-01.txt" -> Some("txt")
    [] OTHER -> None

\* stem.parse::<NaiveDate>()
parse_date(stem) == IF stem \in Dates THEN Some(stem) ELSE None

\* The loop of scan_file from line i on, `entries` pushed so far: the first
\* scan_body error returns (`?`), dropping `entries`.
RECURSIVE scan_lines(_, _, _, _)
scan_lines(source_date, lines, i, entries) ==
  IF i > Len(lines) THEN [ok |-> TRUE, entries |-> entries]
  ELSE IF captures(lines[i]) = None
       THEN scan_lines(source_date, lines, i + 1, entries)
       ELSE LET r == scan_body(source_date, captures(lines[i])[1].body)
            IN  IF r.ok
                THEN scan_lines(source_date, lines, i + 1,
                                Append(entries, scan_line(source_date, lines[i])))
                ELSE [ok |-> FALSE, err |-> r.err]

\* A slip: a scan_body error that ends the loop but not the function, so
\* that the entries pushed before it are returned.
RECURSIVE scan_lines_partial(_, _, _, _)
scan_lines_partial(source_date, lines, i, entries) ==
  IF i > Len(lines) THEN [ok |-> TRUE, entries |-> entries]
  ELSE IF captures(lines[i]) = None
       THEN scan_lines_partial(source_date, lines, i + 1, entries)
       ELSE IF scan_body(source_date, captures(lines[i])[1].body).ok
            THEN scan_lines_partial(source_date, lines, i + 1,
                                    Append(entries, scan_line(source_date, lines[i])))
            ELSE [ok |-> TRUE, entries |-> entries]

scan_file_partial(file) ==
  LET source_date == parse_date(file_stem(file.name))
  IN  IF source_date = None THEN [ok |-> FALSE, err |-> "InvalidFile"]
      ELSE IF ~file.readable THEN [ok |-> FALSE, err |-> "ScanIOError"]
      ELSE scan_lines_partial(source_date[1], file.lines, 1, <<>>)

\* scan_file: Ok(entries) or Err(kind).
scan_file(file) ==
  LET source_date == parse_date(file_stem(file.name))
  IN  IF source_date = None THEN [ok |-> FALSE, err |-> "InvalidFile"]
      ELSE IF ~file.readable THEN [ok |-> FALSE, err |-> "ScanIOError"]
      ELSE scan_lines(source_date[1], file.lines, 1, <<>>)

\* path.join(name)
PathJoin(path, name) == path \o "/" \o name

\* A directory on dir_stack: its path and what read_dir finds there.
AtPath(path, node) == [path |-> path, node |-> node]

\* The state of scan_files: dir_stack, the iterator over the directory being
\* visited (None between directories), and the two result vectors.
\* The locals of scan_files at its start; visited lists the directories
\* given to read_dir ("visiting directory" in the debug log) and scanned the
\* paths given to scan_file, in order.
WalkerStart(dir) ==
  [dir_stack |-> <<AtPath(dir.name, dir)>>, it |-> None, ok |-> <<>>, err |-> <<>>,
   visited |-> <<>>, scanned |-> <<>>]

RoundupError(path, kind) == [file |-> path, kind |-> kind]

\* A slip: a read_dir error that ends the walk (`?` in place of `continue`).
visit_dir_abort(w) ==
  LET n == Len(w.dir_stack)
      dir == w.dir_stack[n]
      rest == SubSeq(w.dir_stack, 1, n - 1)
  IN  IF ~dir.node.readable
      THEN [w EXCEPT !.dir_stack = <<>>,
                     !.visited = Append(@, dir.path),
                     !.err = Append(@, RoundupError(dir.path, "StatIOError"))]
      ELSE [w EXCEPT !.dir_stack = rest,
                     !.visited = Append(@, dir.path),
                     !.it = Some([dir |-> dir.path, left |-> dir.node.children])]

\* A slip: a directory that cannot be read is left on the stack.
visit_dir_retry(w) ==
  LET n == Len(w.dir_stack)
      dir == w.dir_stack[n]
      rest == SubSeq(w.dir_stack, 1, n - 1)
  IN  IF ~dir.node.readable
      THEN w
      ELSE [w EXCEPT !.dir_stack = rest,
                     !.visited = Append(@, dir.path),
                     !.it = Some([dir |-> dir.path, left |-> dir.node.children])]

\* dir_stack.pop() and read_dir(&dir): an error is pushed for a directory
\* that cannot be read, else the iterator over its children is opened.
visit_dir(w) ==
  LET n == Len(w.dir_stack)
      dir == w.dir_stack[n]
      rest == SubSeq(w.dir_stack, 1, n - 1)
  IN  IF ~dir.node.readable
      THEN [w EXCEPT !.dir_stack = rest,
                     !.visited = Append(@, dir.path),
                     !.err = Append(@, RoundupError(dir.path, "StatIOError"))]
      ELSE [w EXCEPT !.dir_stack = rest,
                     !.visited = Append(@, dir.path),
                     !.it = Some([dir |-> dir.path, left |-> dir.node.children])]

\* A slip: the first file that fails to scan ends the walk of its directory
\* and throws away the entries gathered so far.
visit_child_fail_fast(w) ==
  LET dir == w.it[1].dir
      left == w.it[1].left
      child == Head(left)
      path == PathJoin(dir, child.name)
      next == [w EXCEPT !.it = Some([dir |-> dir, left |-> Tail(left)])]
  IN  CASE child.kind = "broken" ->
             [next EXCEPT !.err = Append(@, RoundupError(dir, "StatIOError"))]
        [] child.kind = "dir" ->
             [next EXCEPT !.dir_stack = Append(@, AtPath(path, child))]
        [] child.kind = "file" /\ extension(child.name) = Some("md") ->
             LET r == scan_file(child)
             IN  IF r.ok THEN [next EXCEPT !.ok = @ \o r.entries,
                                           !.scanned = Append(@, path)]
                 ELSE [next EXCEPT !.ok = <<>>, !.it = None,
                                   !.scanned = Append(@, path),
                                   !.err = Append(@, RoundupError(path, r.err))]
        [] OTHER -> next

\* One turn of `for direntry in it`: a failed stat is an error against the
\* directory, a directory is pushed, an md file is scanned, anything else
\* is passed over.
visit_child(w) ==
  LET dir == w.it[1].dir
      left == w.it[1].left
      child == Head(left)
      path == PathJoin(dir, child.name)
      next == [w EXCEPT !.it = Some([dir |-> dir, left |-> Tail(left)])]
  IN  CASE child.kind = "broken" ->
             [next EXCEPT !.err = Append(@, RoundupError(dir, "StatIOError"))]
        [] child.kind = "dir" ->
             [next EXCEPT !.dir_stack = Append(@, AtPath(path, child))]
        [] child.kind = "file" /\ extension(child.name) = Some("md") ->
             LET r == scan_file(child)
             IN  IF r.ok THEN [next EXCEPT !.ok = @ \o r.entries,
                                           !.scanned = Append(@, path)]
                 ELSE [next EXCEPT !.scanned = Append(@, path),
                                   !.err = Append(@, RoundupError(path, r.err))]
        [] OTHER -> next

\* The iterator is exhausted: back to `while let Some(dir) = dir_stack.pop()`.
end_dir(w) == [w EXCEPT !.it = None]

\* The walk has returned: no directory is being visited and none is stacked.
Returned(w) == w.it = None /\ w.dir_stack = <<>>

\* scan_files run to its return: (ok, err).
RECURSIVE walk(_)
walk(w) ==
  IF w.it # None
  THEN IF w.it[1].left = <<>> THEN walk(end_dir(w)) ELSE walk(visit_child(w))
  ELSE IF w.dir_stack = <<>> THEN w ELSE walk(visit_dir(w))

scan_files(dir) == walk(WalkerStart(dir))

\* The url texts a sequence of entries is stored under.
EntryUrls(entries) == {UriToString(entries[i].url) : i \in 1..Len(entries)}

\* The md files of a directory tree that the walk can reach (those below
\* readable directories only), each with its path.
RECURSIVE MdFilesUnder(_, _)
MdFilesUnder(path, dir) ==
  IF ~dir.readable THEN {}
  ELSE UNION { CASE c.kind = "file" /\ extension(c.name) = Some("md") ->
                      {AtPath(PathJoin(path, c.name), c)}
                 [] c.kind = "dir" -> MdFilesUnder(PathJoin(path, c.name), c)
                 [] OTHER -> {}
               : c \in Range(dir.children) }

\* The paths of the directories of a tree that scan_files can come to: the
\* tree's root and every directory listed by a directory that can be read.
RECURSIVE DirsUnder(_, _)
DirsUnder(path, dir) ==
  {path} \cup
    (IF ~dir.readable THEN {}
     ELSE UNION { IF c.kind = "dir" THEN DirsUnder(PathJoin(path, c.name), c)
                  ELSE {}
                  : c \in Range(dir.children) })

\* The url texts of the entries of the files of a tree that scan
\* successfully.
GoodUrls(dir) ==
  UNION { EntryUrls(scan_file(f.node).entries) :
            f \in {g \in MdFilesUnder(dir.name, dir) : scan_file(g.node).ok} }

\* The paths of the files of a tree that fail to scan.
FailedFiles(dir) ==
  {f.path : f \in {g \in MdFilesUnder(dir.name, dir) : ~scan_file(g.node).ok}}

\* The journal files of the model: one tagged line; an untagged line before a
\* tagged one; two tagged lines; a tagged line with no link between two that
\* have one; a line with two tags; a stem that is no date; an extension that is not md; a file
\* that cannot be opened.
Files ==
  { File("2024-03-01.md", TRUE, <<"- #reading [A](http://a)">>),
    File("2024-03-02.md", TRUE, <<"plain text", "#read: see <http://a/>">>),
    File("2024-03-02.md", TRUE, <<"#tbr *[B](http://b/)*", "#read: see <http://a/>">>),
    File("2024-03-02.md", TRUE,
         <<"#tbr *[B](http://b/)*", "#reading no link", "#read: see <http://a/>">>),
    File("2024-03-01.md", TRUE, <<"#read [A](http://a) #tbr *[B](http://b/)*">>),
    File("README.md", TRUE, <<"- #reading [A](http://a)">>),
    File("2024-03-01.txt", TRUE, <<"- #reading [A](http://a)">>),
    File("2024-03-01.md", FALSE, <<>>) }

\* The listings of at most n entries of S, no name twice.
Listings(S, n) ==
  {c \in SeqsUpTo(S, n) : \A i, j \in 1..Len(c) : c[i].name = c[j].name => i = j}

\* Subdirectories: unreadable, or holding at most one file.
SubDirs ==
  {Dir(n, FALSE, <<>>) : n \in {"x", "y"}}
    \cup {Dir(n, TRUE, c) : n \in {"x", "y"}, c \in Listings(Files, 1)}

\* The directory trees scan_files is run on.
Trees ==
  {Dir("journal", FALSE, <<>>)}
    \cup {Dir("journal", TRUE, c) :
            c \in Listings(Files \cup SubDirs \cup {Broken("gone")}, MaxLen)}

(***************************************************************************)
(* Catalog store: the two tables and the SQL statements run on them.       *)
(* A table is the sequence of its rows in rowid order.                     *)
(***************************************************************************)

RowIds(rl) == {rl[i].id : i \in 1..Len(rl)}

RowUrls(rl) == {rl[i].url : i \in 1..Len(rl)}

\* The rowid SQLite assigns to a new reading_list row.
NextId(rl) == IF rl = <<>> THEN 1
              ELSE (CHOOSE m \in RowIds(rl) : \A x \in RowIds(rl) : x <= m) + 1

\* The parameters insert() binds for one entry.
RowOf(entry, id) ==
  [id |-> id, url |-> UriToString(entry.url), source_date |-> entry.source_date,
   original_text |-> entry.original_text, body_text |-> entry.body_text,
   read |-> entry.read]

\* A slip: the INSERT without its ON CONFLICT clause (no unique index hit).
execute_insert_no_conflict(rl, entry) == Append(rl, RowOf(entry, NextId(rl)))

\* A slip: the conflict taken on source_date instead of url.
execute_insert_conflict_on_date(rl, entry) ==
  IF \E i \in 1..Len(rl) : rl[i].source_date = entry.source_date
  THEN rl
  ELSE Append(rl, RowOf(entry, NextId(rl)))

\* A slip: INSERT OR REPLACE, the conflicting row deleted and written anew.
execute_insert_or_replace(rl, entry) ==
  Append(SelectSeq(rl, LAMBDA r : r.url # UriToString(entry.url)),
         RowOf(entry, NextId(rl)))

\* A slip: ON CONFLICT (url) DO UPDATE SET read = excluded.read WHERE read
\* IS NULL, the tag's classification written to a row that has none.
execute_insert_fill_read(rl, entry) ==
  IF UriToString(entry.url) \in RowUrls(rl)
  THEN [i \in 1..Len(rl) |->
          IF rl[i].url = UriToString(entry.url) /\ rl[i].read = None
          THEN [rl[i] EXCEPT !.read = entry.read]
          ELSE rl[i]]
  ELSE Append(rl, RowOf(entry, NextId(rl)))

\* INSERT INTO reading_list ... ON CONFLICT (url) DO NOTHING, one execution.
execute_insert(rl, entry) ==
  IF UriToString(entry.url) \in RowUrls(rl)
  THEN rl
  ELSE Append(rl, RowOf(entry, NextId(rl)))

\* insert(): the statement executed for each entry in order; the count it
\* returns is Len of the result.
RECURSIVE insert(_, _)
insert(entries, rl) ==
  IF entries = <<>> THEN rl
  ELSE insert(Tail(entries), execute_insert(rl, Head(entries)))

\* SELECT COUNT(url) FROM reading_list (url is never NULL).
count_urls(rl) == Len(rl)

\* A slip: the DELETE bound to a date text that matches no row.
delete_roundup_none(rc, date) == rc

\* A slip: the DELETE without its WHERE clause.
delete_roundup_all(rc, date) == <<>>

\* DELETE FROM roundup_contents WHERE date = :date
delete_roundup(rc, date) == SelectSeq(rc, LAMBDA r : r.date # date)

\* The schema of roundup_contents (date text, entry integer) as section 4.3
\* gives it: no constraint rejects a row.
roundup_contents_accepts(rl, rc, row) == TRUE

\* INSERT INTO roundup_contents (date, entry) VALUES (:date, :id)
insert_roundup(rc, date, id) == Append(rc, [date |-> date, entry |-> id])

\* A slip: the UPDATE without its WHERE clause.
execute_update_every_row(rl, id, new_body, read_state) ==
  [i \in 1..Len(rl) |->
     [rl[i] EXCEPT !.body_text = new_body, !.read = read_state]]

\* A slip: the UPDATE setting original_text along with body_text.
execute_update_original(rl, id, new_body, read_state) ==
  [i \in 1..Len(rl) |->
     IF rl[i].id = id
     THEN [rl[i] EXCEPT !.body_text = new_body, !.original_text = new_body,
                        !.read = read_state]
     ELSE rl[i]]

\* UPDATE reading_list SET body_text = :body_text, read = :read WHERE id = :id
execute_update(rl, id, new_body, read_state) ==
  [i \in 1..Len(rl) |->
     IF rl[i].id = id
     THEN [rl[i] EXCEPT !.body_text = new_body, !.read = read_state]
     ELSE rl[i]]

(***************************************************************************)
(* Read queries of impl Server                                             *)
(***************************************************************************)

\* Rows of roundup_contents that reference entry id.
RefsOf(rc, id) == SelectSeq(rc, LAMBDA r : r.entry = id)

\* COUNT(DISTINCT date) ... GROUP BY entry, for one entry; 0 stands for the
\* NULL of an entry with no group (destruct_roundup_row's unwrap_or(0)).
distinct_date_count(rc, id) == Cardinality({r.date : r \in Range(RefsOf(rc, id))})

\* The rows of date :date, as entry ids in rowid order.
Membership(rc, date) ==
  LET rows == SelectSeq(rc, LAMBDA r : r.date = date)
  IN  [i \in 1..Len(rows) |-> rows[i].entry]

\* The joined rows render_roundup builds for one reading_list row: one per
\* matching row of the included subquery, or a single row with included NULL
\* (false after unwrap_or).
\* A slip: one joined row per reading_list row, however many rows of the
\* included subquery match it.
roundup_rows_of_once(row, rc, date) ==
  <<[id |-> row.id, included |-> Count(Membership(rc, date), row.id) > 0,
     count |-> distinct_date_count(rc, row.id), entry |-> row]>>

roundup_rows_of(row, rc, date) ==
  LET n == Count(Membership(rc, date), row.id)
      out == [id |-> row.id, included |-> n > 0,
              count |-> distinct_date_count(rc, row.id), entry |-> row]
  IN  [i \in 1..(IF n = 0 THEN 1 ELSE n) |-> out]

RECURSIVE join_roundup(_, _, _)
join_roundup(rl, rc, date) ==
  IF rl = <<>> THEN <<>>
  ELSE roundup_rows_of(Head(rl), rc, date) \o join_roundup(Tail(rl), rc, date)

\* ORDER BY included DESC, count ASC, source_date ASC
roundup_before(a, b) ==
  \/ a.included /\ ~b.included
  \/ a.included = b.included /\ a.count < b.count
  \/ a.included = b.included /\ a.count = b.count
     /\ DateRank(a.entry.source_date) < DateRank(b.entry.source_date)

\* Server::render_roundup: the rows the page is rendered from.
render_roundup(rl, rc, date) == SortSeq(join_roundup(rl, rc, date), roundup_before)

\* The ids of the rows render_roundup reports as included.
IncludedIds(rows) == {rows[i].id : i \in {j \in 1..Len(rows) : rows[j].included}}

\* ORDER BY count ASC, source_date ASC
article_before(a, b) ==
  \/ a.count < b.count
  \/ a.count = b.count
     /\ DateRank(a.entry.source_date) < DateRank(b.entry.source_date)

\* Server::list_articles: every reading_list row with its roundup count.
list_articles(rl, rc) ==
  SortSeq([i \in 1..Len(rl) |->
             [id |-> rl[i].id, included |-> RefsOf(rc, rl[i].id) # <<>>,
              count |-> distinct_date_count(rc, rl[i].id), entry |-> rl[i]]],
          article_before)

\* Server::render_article: COUNT(roundup_contents.date) over the join and the
\* entry; with no row of that id the aggregate row is all NULL and
\* destruct_entry fails.
\* A slip: the count of an entry taken over its distinct dates.
render_article_distinct(rl, rc, id) ==
  IF id \in RowIds(rl)
  THEN [ok |-> TRUE, count |-> distinct_date_count(rc, id),
        entry |-> (CHOOSE r \in Range(rl) : r.id = id)]
  ELSE [ok |-> FALSE, err |-> "SqlError"]

render_article(rl, rc, id) ==
  IF id \in RowIds(rl)
  THEN [ok |-> TRUE, count |-> Len(RefsOf(rc, id)),
        entry |-> (CHOOSE r \in Range(rl) : r.id = id)]
  ELSE [ok |-> FALSE, err |-> "SqlError"]

\* The dates of a set, ascending (SELECT DISTINCT date ... ORDER BY date ASC).
dates_asc(S) == SelectSeq(DatesAsc, LAMBDA d : d \in S)

\* Server::list_roundups
list_roundups(rc) == dates_asc({r.date : r \in Range(rc)})

\* Server::list_roundups_by_article
list_roundups_by_article(rc, id) == dates_asc({r.date : r \in Range(RefsOf(rc, id))})

\* The front-matter block render_roundup_md writes first.
front_matter(date) ==
  "---\ntitle: \"Reading Roundup, " \o date \o "\"\ndate: " \o date \o "\n---\n\n"

\* The loop of render_roundup_md: each body with its newline, then one more
\* newline as paragraph break.
RECURSIVE write_bodies(_, _)
write_bodies(bodies, i) ==
  IF i > Len(bodies) THEN ""
  ELSE bodies[i] \o "\n" \o "\n" \o write_bodies(bodies, i + 1)

\* Server::render_roundup_md: the body_text of each row of the date joined to
\* its entry; a row whose entry is missing joins to NULL, which row.get(0)
\* cannot read as a String.
render_roundup_md(rl, rc, date) ==
  LET m == Membership(rc, date)
      bodies == [i \in 1..Len(m) |->
                   (CHOOSE r \in Range(rl) : r.id = m[i]).body_text]
  IN  IF \A i \in 1..Len(m) : m[i] \in RowIds(rl)
      THEN [ok |-> TRUE, bodies |-> bodies,
            text |-> front_matter(date) \o write_bodies(bodies, 1)]
      ELSE [ok |-> FALSE, err |-> "SqlError"]

(***************************************************************************)
(* The server: request tasks sharing Arc<Mutex<Server>>                    *)
(***************************************************************************)

VARIABLES
  reading_list,      \* table reading_list as the connection sees it
  roundup_contents,  \* table roundup_contents as the connection sees it
  journal,           \* None, or Some of the tables as of BEGIN (what a rollback restores)
  mutex,             \* the task holding the Mutex<Server>, or NoTask
  pc,                \* each task's position in its handler
  local,             \* each task's handler arguments, locals and response
  nops,              \* requests accepted so far
  seq_store,         \* SpecSeq: the tables of a store driven by one caller
  seq_prev,          \* SpecSeq: the tables before the caller's last call
  seq_log,           \* SpecSeq: the calls made, in order
  pair_a,            \* SpecPair: reading_list of a first store, with the urls ingested
  pair_b,            \* SpecPair: the same for a second store
  scan_dir,          \* SpecScan: the directory tree scan_files is called on
  walker,            \* SpecScan: the locals of scan_files
  body_ast,          \* SpecAst: the markup tree of a body
  scanned            \* SpecAst: None, or Some of what scan_body answers for it

srv_vars == <<reading_list, roundup_contents, journal, mutex, pc, local, nops>>

seq_vars == <<seq_store, seq_prev, seq_log>>

pair_vars == <<pair_a, pair_b>>

scan_vars == <<scan_dir, walker>>

ast_vars == <<body_ast, scanned>>

vars == <<srv_vars, seq_vars, pair_vars, scan_vars, ast_vars>>

Tasks == {"t1", "t2"}

NoTask == "none"

Idle == [op |-> "none"]

\* Entry ids a form or path can carry (any isize; two of them here, so that
\* an id may or may not name a stored row).
IdArgs == {1, 2}

\* Texts the editor form posts as body_text.
EditBodies == {"edited"}

ReadStates == {None, Some(TRUE), Some(FALSE)}

\* Store contents the database file can hold when the server starts.
InitStores ==
  { [rl |-> <<>>, rc |-> <<>>],
    [rl |-> insert(<<scan_body("2024-03-01", "[L](http://long)").entry>>, <<>>),
     rc |-> <<>>],
    [rl |-> insert(<<scan_line("2024-03-01", "- #reading [A](http://a)")>>, <<>>),
     rc |-> <<[date |-> "2024-03-01", entry |-> 1]>>] }

EmptyStore == [rl |-> <<>>, rc |-> <<>>]

\* The raw urls of the scanned entries, and the bag holding none of them.
EntryUris == {e.url : e \in ScannedEntries}

NoUrls == [u \in EntryUris |-> 0]

\* The server on a store s, no request accepted yet.
SrvInit(s) ==
  /\ reading_list = s.rl /\ roundup_contents = s.rc
  /\ journal = None
  /\ mutex = NoTask
  /\ pc = [t \in Tasks |-> "idle"]
  /\ local = [t \in Tasks |-> Idle]
  /\ nops = 0

\* The single caller on a store s, no call made yet.
SeqInit(s) == seq_store = s /\ seq_prev = s /\ seq_log = <<>>

\* Two stores with the same contents s, nothing ingested yet.
PairInit(s) ==
  /\ pair_a = [rl |-> s.rl, urls |-> NoUrls, n |-> 0]
  /\ pair_b = [rl |-> s.rl, urls |-> NoUrls, n |-> 0]

\* What the directory `sources` can hold when an Update scans it: nothing;
\* two files with one url; the same two listed the other way round; one
\* file of two urls; a good file beside one whose stem is no date; a file
\* with a link-less tagged line, an unreadable subdirectory and a good file;
\* nothing but a file whose stem is no date.
Sources ==
  LET a1 == File("2024-03-01.md", TRUE, <<"- #reading [A](http://a)">>)
      a2 == File("2024-03-02.md", TRUE, <<"plain text", "#read: see <http://a/>">>)
      ba == File("2024-03-02.md", TRUE,
                 <<"#tbr *[B](http://b/)*", "#read: see <http://a/>">>)
      bad == File("2024-03-02.md", TRUE,
                  <<"#tbr *[B](http://b/)*", "#reading no link",
                    "#read: see <http://a/>">>)
      readme == File("README.md", TRUE, <<"- #reading [A](http://a)">>)
  IN  { Dir("journal", TRUE, <<>>),
        Dir("journal", TRUE, <<a1, a2>>),
        Dir("journal", TRUE, <<a2, a1>>),
        Dir("journal", TRUE, <<ba>>),
        Dir("journal", TRUE, <<a1, readme>>),
        Dir("journal", TRUE, <<bad, Dir("x", FALSE, <<>>), a1>>),
        Dir("journal", TRUE, <<readme>>) }

\* scan_files entered on directory tree d.
ScanInit(d) == scan_dir = d /\ walker = WalkerStart(d)

EmptyDir == Dir("journal", TRUE, <<>>)

\* scan_body entered on a body whose markup tree is a.
AstInit(a) == body_ast = a /\ scanned = None

EmptyAst == Node("Root", <<>>)

Init ==
  /\ \E s \in InitStores : SrvInit(s)
  /\ SeqInit(EmptyStore)
  /\ PairInit(EmptyStore)
  /\ ScanInit(EmptyDir)
  /\ AstInit(EmptyAst)

\* The mutex once a task has panicked while holding it: no task holds it
\* and every later lock() answers Err(PoisonError).
Poisoned == "poisoned"

\* destruct_entry: the row as a ReadingListEntry; url and source_date are
\* parsed back from their text and unwrapped, so a text that does not parse
\* is a panic. (source_date is written from a NaiveDate and parses back.)
destruct_entry(row) == [panic |-> UriParse(row.url) = None, entry |-> row]

\* A slip: a lock that is granted while another task holds it.
try_lock_unguarded(m) == TRUE

\* Mutex::lock succeeds once no task holds the mutex.
try_lock(m) == m = NoTask

\* conn.transaction(): BEGIN, remembering what a rollback restores.
begin(rl, rc) == Some([rl |-> rl, rc |-> rc])

\* A slip: a transaction whose drop keeps (commits) what it has written.
rollback_keep(j, rl, rc) == [rl |-> rl, rc |-> rc]

\* Drop of a Transaction that was not committed (DropBehavior::Rollback): the
\* tables are again those of BEGIN.
rollback(j, rl, rc) == IF j = None THEN [rl |-> rl, rc |-> rc] ELSE j[1]

\* A handler that takes the lock first: the request is accepted and waits.
Arrive(t) ==
  /\ pc[t] = "idle"
  /\ UNCHANGED <<seq_vars, pair_vars, scan_vars, ast_vars>>
  /\ nops < MaxOps
  /\ pc' = [pc EXCEPT ![t] = "waiting"]
  /\ nops' = nops + 1
  /\ UNCHANGED <<reading_list, roundup_contents, journal, mutex, local>>

\* server.lock().unwrap()
Acquire(t) ==
  /\ pc[t] = "waiting"
  /\ UNCHANGED <<seq_vars, pair_vars, scan_vars, ast_vars>>
  /\ try_lock(mutex)
  /\ mutex' = t
  /\ pc' = [pc EXCEPT ![t] = "locked"]
  /\ UNCHANGED <<reading_list, roundup_contents, journal, local, nops>>

\* The handler returns: its response is built and the MutexGuard dropped.
Respond(t, r) ==
  /\ local' = [local EXCEPT ![t] = r]
  /\ pc' = [pc EXCEPT ![t] = "done"]
  /\ mutex' = NoTask

\* The handler panics: the task ends with no response, and the MutexGuard
\* dropped while unwinding poisons the mutex.
Panic(t, at) ==
  /\ local' = [local EXCEPT ![t] = [op |-> "panic", ok |-> FALSE, at |-> at]]
  /\ pc' = [pc EXCEPT ![t] = "done"]
  /\ mutex' = Poisoned

\* server.lock().unwrap() on a poisoned mutex, in any handler and at both
\* lock() calls of update: the unwrap panics before the handler does
\* anything. (Requests to a poisoned server change nothing, so they need
\* no bound: they keep coming and keep failing.)
LockPoisoned(t) ==
  /\ mutex = Poisoned
  /\ UNCHANGED <<seq_vars, pair_vars, scan_vars, ast_vars>>
  /\ pc[t] \in {"idle", "waiting", "upd_scanned"}
  /\ Panic(t, "lock")
  /\ UNCHANGED <<reading_list, roundup_contents, journal, nops>>

\* GET /roundups/:date/
RenderRoundup(t) ==
  /\ pc[t] = "locked"
  /\ UNCHANGED <<seq_vars, pair_vars, scan_vars, ast_vars>>
  /\ \E date \in Dates :
       IF \E row \in Range(reading_list) : destruct_entry(row).panic
       THEN Panic(t, "destruct_entry")
       ELSE Respond(t, [op |-> "GetRoundup", date |-> date, ok |-> TRUE,
                        rows |-> render_roundup(reading_list, roundup_contents, date)])
  /\ UNCHANGED <<reading_list, roundup_contents, journal, nops>>

\* GET /roundups/:date/md
RenderRoundupMd(t) ==
  /\ pc[t] = "locked"
  /\ UNCHANGED <<seq_vars, pair_vars, scan_vars, ast_vars>>
  /\ \E date \in Dates :
       LET r == render_roundup_md(reading_list, roundup_contents, date)
       IN  Respond(t, [op |-> "ComposeRoundupMarkdown", date |-> date, ok |-> r.ok,
                       bodies |-> IF r.ok THEN r.bodies ELSE <<>>,
                       text |-> IF r.ok THEN r.text ELSE ""])
  /\ UNCHANGED <<reading_list, roundup_contents, journal, nops>>

\* GET /roundups/
ListRoundups(t) ==
  /\ pc[t] = "locked"
  /\ UNCHANGED <<seq_vars, pair_vars, scan_vars, ast_vars>>
  /\ Respond(t, [op |-> "ListRoundups", ok |-> TRUE,
                  dates |-> list_roundups(roundup_contents)])
  /\ UNCHANGED <<reading_list, roundup_contents, journal, nops>>

\* GET /roundups/by-article/:id/
ListRoundupsByArticle(t) ==
  /\ pc[t] = "locked"
  /\ UNCHANGED <<seq_vars, pair_vars, scan_vars, ast_vars>>
  /\ \E id \in IdArgs :
       Respond(t, [op |-> "ListRoundupsByEntry", id |-> id, ok |-> TRUE,
                   dates |-> list_roundups_by_article(roundup_contents, id)])
  /\ UNCHANGED <<reading_list, roundup_contents, journal, nops>>

\* GET /articles/
ListArticles(t) ==
  /\ pc[t] = "locked"
  /\ UNCHANGED <<seq_vars, pair_vars, scan_vars, ast_vars>>
  /\ IF \E row \in Range(reading_list) : destruct_entry(row).panic
     THEN Panic(t, "destruct_entry")
     ELSE Respond(t, [op |-> "ListEntries", ok |-> TRUE,
                      rows |-> list_articles(reading_list, roundup_contents)])
  /\ UNCHANGED <<reading_list, roundup_contents, journal, nops>>

\* GET /articles/:id/
RenderArticle(t) ==
  /\ pc[t] = "locked"
  /\ UNCHANGED <<seq_vars, pair_vars, scan_vars, ast_vars>>
  /\ \E id \in IdArgs :
       LET r == render_article(reading_list, roundup_contents, id)
       IN  IF r.ok /\ destruct_entry(r.entry).panic
           THEN Panic(t, "destruct_entry")
           ELSE Respond(t, [op |-> "GetEntry", id |-> id, ok |-> r.ok,
                            count |-> IF r.ok THEN r.count ELSE 0])
  /\ UNCHANGED <<reading_list, roundup_contents, journal, nops>>

\* The ways the store calls of a handler can end: all succeed, a statement
\* of the transaction returns an error, or a statement run after the commit
\* returns an error.
StoreOutcomes == {"ok", "tx_error", "late_error"}

\* POST /articles/ : Server::create_article. scan_body, then the insert in
\* its own transaction, then the SELECT of the id under the entry's url. An
\* error inside the transaction drops it; an error of the SELECT comes after
\* the commit.
CreateArticle(t) ==
  /\ pc[t] = "locked"
  /\ UNCHANGED <<seq_vars, pair_vars, scan_vars, ast_vars>>
  /\ \E new_body \in Bodies, now \in Dates, outcome \in StoreOutcomes :
       LET r == scan_body(now, new_body)
           rl2 == IF r.ok THEN insert(<<r.entry>>, reading_list) ELSE reading_list
           undone == rollback(begin(reading_list, roundup_contents),
                              rl2, roundup_contents)
           resp == [op |-> "CreateEntry", body |-> new_body]
       IN  CASE ~r.ok ->
                  /\ outcome = "ok"
                  /\ reading_list' = reading_list
                  /\ Respond(t, resp @@ [ok |-> FALSE, err |-> "ScanningError",
                                          at |-> "scan_body", id |-> 0])
             [] r.ok /\ outcome = "tx_error" ->
                  /\ reading_list' = undone.rl
                  /\ Respond(t, resp @@ [ok |-> FALSE, err |-> "SqlError",
                                          at |-> "transaction", id |-> 0])
             [] r.ok /\ outcome = "late_error" ->
                  /\ reading_list' = rl2
                  /\ Respond(t, resp @@ [ok |-> FALSE, err |-> "SqlError",
                                          at |-> "lookup", id |-> 0])
             [] r.ok /\ outcome = "ok" ->
                  /\ reading_list' = rl2
                  /\ Respond(t, resp @@ [ok |-> TRUE,
                                          id |-> (CHOOSE row \in Range(rl2) :
                                                    row.url = UriToString(r.entry.url)).id])
  /\ UNCHANGED <<roundup_contents, journal, nops>>

\* POST /articles/:id/ : Server::update_article
UpdateArticle(t) ==
  /\ pc[t] = "locked"
  /\ UNCHANGED <<seq_vars, pair_vars, scan_vars, ast_vars>>
  /\ \E id \in IdArgs, new_body \in EditBodies, read_state \in ReadStates :
       /\ reading_list' = execute_update(reading_list, id, new_body, read_state)
       /\ Respond(t, [op |-> "UpdateEntry", id |-> id, ok |-> TRUE])
  /\ UNCHANGED <<roundup_contents, journal, nops>>

\* POST /roundups/:date/ : Server::update_roundup up to and including the
\* DELETE.
UpdateRoundupDelete(t) ==
  /\ pc[t] = "locked"
  /\ UNCHANGED <<seq_vars, pair_vars, scan_vars, ast_vars>>
  /\ \E date \in Dates, articles \in SeqsUpTo(IdArgs, MaxLen) :
       /\ journal' = begin(reading_list, roundup_contents)
       /\ roundup_contents' = delete_roundup(roundup_contents, date)
       /\ local' = [local EXCEPT ![t] =
                      [op |-> "SetRoundup", date |-> date, articles |-> articles, i |-> 1]]
  /\ pc' = [pc EXCEPT ![t] = "sr_tx"]
  /\ UNCHANGED <<reading_list, mutex, nops>>

\* One turn of the loop `for id in articles`: the INSERT, or, if the store
\* rejects the row, the error return that drops (rolls back) the transaction.
UpdateRoundupInsert(t) ==
  /\ pc[t] = "sr_tx"
  /\ UNCHANGED <<seq_vars, pair_vars, scan_vars, ast_vars>>
  /\ local[t].i <= Len(local[t].articles)
  /\ LET id == local[t].articles[local[t].i]
         row == [date |-> local[t].date, entry |-> id]
     IN  IF roundup_contents_accepts(reading_list, roundup_contents, row)
         THEN /\ roundup_contents' = insert_roundup(roundup_contents, local[t].date, id)
              /\ local' = [local EXCEPT ![t].i = @ + 1]
              /\ UNCHANGED <<reading_list, journal, mutex, pc>>
         ELSE /\ reading_list' = rollback(journal, reading_list, roundup_contents).rl
              /\ roundup_contents' = rollback(journal, reading_list, roundup_contents).rc
              /\ journal' = None
              /\ Respond(t, [op |-> "SetRoundup", date |-> local[t].date,
                              articles |-> local[t].articles,
                              ok |-> FALSE, err |-> "SqlError"])
  /\ UNCHANGED nops

\* A statement of the transaction (an INSERT, or the COMMIT) returns an
\* error: `?` returns from update_roundup, the transaction is dropped.
UpdateRoundupFail(t) ==
  /\ pc[t] = "sr_tx"
  /\ UNCHANGED <<seq_vars, pair_vars, scan_vars, ast_vars>>
  /\ reading_list' = rollback(journal, reading_list, roundup_contents).rl
  /\ roundup_contents' = rollback(journal, reading_list, roundup_contents).rc
  /\ journal' = None
  /\ Respond(t, [op |-> "SetRoundup", date |-> local[t].date,
                  articles |-> local[t].articles,
                  ok |-> FALSE, err |-> "SqlError"])
  /\ UNCHANGED nops

\* tx.commit() and the redirect.
UpdateRoundupCommit(t) ==
  /\ pc[t] = "sr_tx"
  /\ UNCHANGED <<seq_vars, pair_vars, scan_vars, ast_vars>>
  /\ local[t].i > Len(local[t].articles)
  /\ journal' = None
  /\ Respond(t, [op |-> "SetRoundup", date |-> local[t].date,
                  articles |-> local[t].articles, ok |-> TRUE])
  /\ UNCHANGED <<reading_list, roundup_contents, nops>>

\* GET /update/ : the first lock (held only to clone `sources`) and the
\* scan of the journal directory, which runs with the lock released.
UpdateScan(t) ==
  /\ pc[t] = "idle"
  /\ UNCHANGED <<seq_vars, pair_vars, scan_vars, ast_vars>>
  /\ nops < MaxOps
  /\ try_lock(mutex)
  /\ \E dir \in Sources :
       local' = [local EXCEPT ![t] =
                   [op |-> "Update", dir |-> dir,
                    entries |-> scan_files(dir).ok, errors |-> scan_files(dir).err]]
  /\ pc' = [pc EXCEPT ![t] = "upd_scanned"]
  /\ nops' = nops + 1
  /\ UNCHANGED <<reading_list, roundup_contents, journal, mutex>>

\* let mut s = s.lock().unwrap();
UpdateLock(t) ==
  /\ pc[t] = "upd_scanned"
  /\ UNCHANGED <<seq_vars, pair_vars, scan_vars, ast_vars>>
  /\ try_lock(mutex)
  /\ mutex' = t
  /\ pc' = [pc EXCEPT ![t] = "upd_locked"]
  /\ UNCHANGED <<reading_list, roundup_contents, journal, local, nops>>

\* s.conn.transaction() and the first SELECT COUNT(url); pre_urls records
\* the urls that count was taken over.
UpdatePreCount(t) ==
  /\ pc[t] = "upd_locked"
  /\ UNCHANGED <<seq_vars, pair_vars, scan_vars, ast_vars>>
  /\ journal' = begin(reading_list, roundup_contents)
  /\ local' = [local EXCEPT ![t] =
                 [op |-> "Update", dir |-> local[t].dir,
                  entries |-> local[t].entries, errors |-> local[t].errors,
                  count_pre |-> count_urls(reading_list),
                  pre_urls |-> RowUrls(reading_list)]]
  /\ pc' = [pc EXCEPT ![t] = "upd_counted"]
  /\ UNCHANGED <<reading_list, roundup_contents, mutex, nops>>

\* roundup::insert(entries.iter(), &mut tx)
UpdateInsert(t) ==
  /\ pc[t] = "upd_counted"
  /\ UNCHANGED <<seq_vars, pair_vars, scan_vars, ast_vars>>
  /\ reading_list' = insert(local[t].entries, reading_list)
  /\ pc' = [pc EXCEPT ![t] = "upd_inserted"]
  /\ UNCHANGED <<roundup_contents, journal, mutex, local, nops>>

\* The second SELECT COUNT(url), tx.commit() and the response.
UpdateCommit(t) ==
  /\ pc[t] = "upd_inserted"
  /\ UNCHANGED <<seq_vars, pair_vars, scan_vars, ast_vars>>
  /\ journal' = None
  /\ Respond(t, [op |-> "Update", dir |-> local[t].dir,
                  entries |-> local[t].entries, errors |-> local[t].errors,
                  ok |-> TRUE,
                  count_pre |-> local[t].count_pre,
                  count_post |-> count_urls(reading_list),
                  pre_urls |-> local[t].pre_urls])
  /\ UNCHANGED <<reading_list, roundup_contents, nops>>

\* A statement of update()'s transaction (the insert, the second count or
\* the COMMIT) returns an error: the closure returns Err, the transaction is
\* dropped, and the response reports the database error.
UpdateFail(t) ==
  /\ pc[t] \in {"upd_counted", "upd_inserted"}
  /\ UNCHANGED <<seq_vars, pair_vars, scan_vars, ast_vars>>
  /\ reading_list' = rollback(journal, reading_list, roundup_contents).rl
  /\ roundup_contents' = rollback(journal, reading_list, roundup_contents).rc
  /\ journal' = None
  /\ Respond(t, [op |-> "Update", dir |-> local[t].dir,
                  entries |-> local[t].entries, errors |-> local[t].errors,
                  ok |-> FALSE, err |-> "SqlError",
                  count_pre |-> local[t].count_pre,
                  pre_urls |-> local[t].pre_urls])
  /\ UNCHANGED nops

\* The response has been sent; the task is free for the next request.
Finish(t) ==
  /\ pc[t] = "done"
  /\ UNCHANGED <<seq_vars, pair_vars, scan_vars, ast_vars>>
  /\ pc' = [pc EXCEPT ![t] = "idle"]
  /\ local' = [local EXCEPT ![t] = Idle]
  /\ UNCHANGED <<reading_list, roundup_contents, journal, mutex, nops>>

\* One step of the task serving a request.
TaskNext(t) ==
    \/ Arrive(t)
    \/ Acquire(t)
    \/ LockPoisoned(t)
    \/ RenderRoundup(t)
    \/ RenderRoundupMd(t)
    \/ ListRoundups(t)
    \/ ListRoundupsByArticle(t)
    \/ ListArticles(t)
    \/ RenderArticle(t)
    \/ CreateArticle(t)
    \/ UpdateArticle(t)
    \/ UpdateRoundupDelete(t)
    \/ UpdateRoundupInsert(t)
    \/ UpdateRoundupCommit(t)
    \/ UpdateRoundupFail(t)
    \/ UpdateScan(t)
    \/ UpdateLock(t)
    \/ UpdatePreCount(t)
    \/ UpdateInsert(t)
    \/ UpdateCommit(t)
    \/ UpdateFail(t)
    \/ Finish(t)

Next == \E t \in Tasks : TaskNext(t)

Spec == Init /\ [][Next]_vars

\* The server on a runtime that keeps running every task that can take a
\* step (tokio polls each ready task; a task blocked in lock() is woken when
\* the mutex is released).
SpecLive == Spec /\ \A t \in Tasks : WF_vars(TaskNext(t))

(***************************************************************************)
(* The store operations as one caller runs them, one after the other: each *)
(* whole handler body composed of the statements above.                    *)
(***************************************************************************)

\* The loop `for id in articles` of Server::update_roundup.
RECURSIVE insert_roundups(_, _, _)
insert_roundups(rc, date, articles) ==
  IF articles = <<>> THEN rc
  ELSE insert_roundups(insert_roundup(rc, date, Head(articles)), date, Tail(articles))

\* Server::update_roundup, committed.
set_roundup(store, date, articles) ==
  [store EXCEPT !.rc = insert_roundups(delete_roundup(@, date), date, articles)]

\* The transaction of update(): roundup::insert, committed.
bulk_ingest(store, entries) == [store EXCEPT !.rl = insert(entries, @)]

\* Server::create_article: nothing is stored when scan_body fails.
create_entry(store, new_body, now) ==
  LET r == scan_body(now, new_body)
  IN  IF r.ok THEN [store EXCEPT !.rl = insert(<<r.entry>>, @)] ELSE store

\* Server::update_article
update_entry(store, id, new_body, read_state) ==
  [store EXCEPT !.rl = execute_update(@, id, new_body, read_state)]

\* The caller's next call turns the store into `after`.
SeqCall(call, after) ==
  /\ seq_prev' = seq_store
  /\ seq_store' = after
  /\ seq_log' = Append(seq_log, call)
  /\ UNCHANGED <<srv_vars, pair_vars, scan_vars, ast_vars>>

SeqBulkIngest ==
  /\ Len(seq_log) < MaxOps
  /\ \E entries \in SeqsUpTo(ScannedEntries, MaxLen) :
       SeqCall([op |-> "BulkIngest", entries |-> entries],
               bulk_ingest(seq_store, entries))

SeqCreateEntry ==
  /\ Len(seq_log) < MaxOps
  /\ \E new_body \in Bodies, now \in Dates :
       SeqCall([op |-> "CreateEntry", body |-> new_body, now |-> now],
               create_entry(seq_store, new_body, now))

SeqUpdateEntry ==
  /\ Len(seq_log) < MaxOps
  /\ \E id \in IdArgs, new_body \in EditBodies, read_state \in ReadStates :
       SeqCall([op |-> "UpdateEntry", id |-> id, body |-> new_body, read |-> read_state],
               update_entry(seq_store, id, new_body, read_state))

SeqSetRoundup ==
  /\ Len(seq_log) < MaxOps
  /\ \E date \in Dates, articles \in SeqsUpTo(IdArgs, MaxLen) :
       SeqCall([op |-> "SetRoundup", date |-> date, articles |-> articles],
               set_roundup(seq_store, date, articles))

SeqNext ==
  \/ SeqBulkIngest
  \/ SeqCreateEntry
  \/ SeqUpdateEntry
  \/ SeqSetRoundup

SeqSpecInit ==
  /\ SrvInit(EmptyStore)
  /\ PairInit(EmptyStore)
  /\ ScanInit(EmptyDir)
  /\ AstInit(EmptyAst)
  /\ \E s \in InitStores : SeqInit(s)

SpecSeq == SeqSpecInit /\ [][SeqNext]_vars

(***************************************************************************)
(* Two stores that start with the same contents and are each fed a         *)
(* sequence of BulkIngest calls.                                           *)
(***************************************************************************)

\* The bag of urls with those of `entries` added.
AddUrls(urls, entries) ==
  [u \in EntryUris |->
     urls[u] + Cardinality({i \in 1..Len(entries) : entries[i].url = u})]

\* One BulkIngest call on a store of the pair.
PairIngest(p, entries) ==
  [rl |-> bulk_ingest([rl |-> p.rl, rc |-> <<>>], entries).rl,
   urls |-> AddUrls(p.urls, entries),
   n |-> p.n + 1]

PairIngestA ==
  /\ pair_a.n < MaxOps
  /\ \E entries \in SeqsUpTo(ScannedEntries, MaxLen) :
       pair_a' = PairIngest(pair_a, entries)
  /\ UNCHANGED <<pair_b, srv_vars, seq_vars, scan_vars, ast_vars>>

PairIngestB ==
  /\ pair_b.n < MaxOps
  /\ \E entries \in SeqsUpTo(ScannedEntries, MaxLen) :
       pair_b' = PairIngest(pair_b, entries)
  /\ UNCHANGED <<pair_a, srv_vars, seq_vars, scan_vars, ast_vars>>

PairNext ==
  \/ PairIngestA
  \/ PairIngestB

PairSpecInit ==
  /\ SrvInit(EmptyStore)
  /\ SeqInit(EmptyStore)
  /\ ScanInit(EmptyDir)
  /\ AstInit(EmptyAst)
  /\ \E s \in InitStores : PairInit(s)

SpecPair == PairSpecInit /\ [][PairNext]_vars

(***************************************************************************)
(* scan_files run step by step on a directory tree.                        *)
(***************************************************************************)

\* while let Some(dir) = dir_stack.pop() { read_dir(&dir) ...
ScanVisitDir ==
  /\ walker.it = None /\ walker.dir_stack # <<>>
  /\ walker' = visit_dir(walker)
  /\ UNCHANGED <<scan_dir, srv_vars, seq_vars, pair_vars, ast_vars>>

\* for direntry in it { ... }, one turn.
ScanVisitChild ==
  /\ walker.it # None
  /\ walker.it[1].left # <<>>
  /\ walker' = visit_child(walker)
  /\ UNCHANGED <<scan_dir, srv_vars, seq_vars, pair_vars, ast_vars>>

\* The iterator yields None.
ScanEndDir ==
  /\ walker.it # None
  /\ walker.it[1].left = <<>>
  /\ walker' = end_dir(walker)
  /\ UNCHANGED <<scan_dir, srv_vars, seq_vars, pair_vars, ast_vars>>

ScanNext ==
  \/ ScanVisitDir
  \/ ScanVisitChild
  \/ ScanEndDir

ScanSpecInit ==
  /\ SrvInit(EmptyStore)
  /\ SeqInit(EmptyStore)
  /\ PairInit(EmptyStore)
  /\ \E d \in Trees : ScanInit(d)
  /\ AstInit(EmptyAst)

SpecScan == ScanSpecInit /\ [][ScanNext]_vars

\* scan_files entered, before `dir_stack = vec![dir.to_owned()]`: nothing
\* gathered, nothing stacked.
WalkerEntry ==
  [dir_stack |-> <<>>, it |-> None, ok |-> <<>>, err |-> <<>>,
   visited |-> <<>>, scanned |-> <<>>]

\* The caller passes the directory; what is found there is any tree.
ScanCall ==
  /\ walker = WalkerEntry
  /\ \E d \in Trees : scan_dir' = d /\ walker' = WalkerStart(d)
  /\ UNCHANGED <<srv_vars, seq_vars, pair_vars, ast_vars>>

ScanLiveNext == ScanCall \/ ScanNext

ScanLiveInit ==
  /\ SrvInit(EmptyStore)
  /\ SeqInit(EmptyStore)
  /\ PairInit(EmptyStore)
  /\ AstInit(EmptyAst)
  /\ scan_dir = EmptyDir
  /\ walker = WalkerEntry

\* scan_files as a running call: once called, the thread goes on while the
\* loop has a next step.
SpecScanLive == ScanLiveInit /\ [][ScanLiveNext]_vars /\ WF_vars(ScanNext)

(***************************************************************************)
(* scan_body on markup trees                                               *)
(***************************************************************************)

\* scan_body from the parsed tree on: find_url, then the entry or MissingLink.
AstScan ==
  /\ scanned = None
  /\ scanned' = Some(scan_ast("2024-03-01", "body", body_ast))
  /\ UNCHANGED <<body_ast, srv_vars, seq_vars, pair_vars, scan_vars>>

AstNext == AstScan

AstSpecInit ==
  /\ SrvInit(EmptyStore)
  /\ SeqInit(EmptyStore)
  /\ PairInit(EmptyStore)
  /\ ScanInit(EmptyDir)
  /\ \E a \in Asts : AstInit(a)

SpecAst == AstSpecInit /\ [][AstNext]_vars

(***************************************************************************)
(* Properties of the body scanner (SpecAst)                                *)
(***************************************************************************)

\* C22: scan_body answers with the url of the first Link node in depth-first
\* pre-order whose url parses, earlier Links that do not parse being skipped,
\* and with MissingLink exactly when no Link of the tree has a url that
\* parses.
C22_FirstParseableLink ==
  scanned # None =>
    LET links == SelectSeq(PreOrder(body_ast), IsParseableLink)
    IN  IF links = <<>>
        THEN ~scanned[1].ok /\ scanned[1].err = "MissingLink"
        ELSE scanned[1].ok /\ scanned[1].entry.url = UriParse(links[1].url)[1]

\* A body is scanned whose first Link does not parse, inside a node that is
\* no link, and a later Link gives the url.
C22_Witness ==
  /\ scanned # None
  /\ scanned[1].ok
  /\ LET links == SelectSeq(PreOrder(body_ast), IsLink)
     IN  /\ Len(links) > 1
         /\ UriParse(links[1].url) = None
  /\ \E i \in 1..Len(body_ast.children[1].children) :
       /\ body_ast.children[1].children[i].kind = "Emphasis"
       /\ Len(body_ast.children[1].children[i].children) > 1

(***************************************************************************)
(* Properties of the walker (SpecScan)                                     *)
(***************************************************************************)

\* A file that scan_file opens and that has a tagged line with no link.
HasLinklessTaggedLine(file) ==
  /\ file.kind = "file" /\ extension(file.name) = Some("md")
  /\ parse_date(file_stem(file.name)) # None
  /\ file.readable
  /\ \E i \in 1..Len(file.lines) :
       /\ captures(file.lines[i]) # None
       /\ find_url(to_mdast(captures(file.lines[i])[1].body)) = None

\* The errors recorded against path p.
ErrorsAt(err, p) == {k \in 1..Len(err) : err[k].file = p}

\* C19: when the walk comes to a file with a tagged line on which scan_body
\* fails, that file adds exactly one error, against its own path, and adds
\* no entry, whatever tagged lines come before the failing one.
C19_FailedFileOneErrorNoEntries ==
  [][(walker.it # None /\ walker.it[1].left # <<>>
        /\ HasLinklessTaggedLine(Head(walker.it[1].left))) =>
       /\ walker'.ok = walker.ok
       /\ walker'.err =
            Append(walker.err,
                   RoundupError(PathJoin(walker.it[1].dir, Head(walker.it[1].left).name),
                                "MissingLink"))
       /\ Cardinality(ErrorsAt(walker'.err,
              PathJoin(walker.it[1].dir, Head(walker.it[1].left).name))) = 1]_vars

\* The walk of a tree has returned with a MissingLink error for a file whose
\* first tagged line holds the link http://b/ ; the entries returned come
\* from another file and none has that url.
C19_Witness ==
  /\ Returned(walker)
  /\ \E c \in Range(scan_dir.children) :
       /\ HasLinklessTaggedLine(c)
       /\ c.lines[1] = "#tbr *[B](http://b/)*"
       /\ ErrorsAt(walker.err, PathJoin(scan_dir.name, c.name)) # {}
  /\ walker.ok # <<>>
  /\ \A k \in 1..Len(walker.ok) : UriToString(walker.ok[k].url) # "http://b/"

\* The directories of a tree that the walk comes to and cannot read, by
\* path.
RECURSIVE UnreadableDirs(_, _)
UnreadableDirs(path, dir) ==
  IF ~dir.readable THEN {path}
  ELSE UNION { IF c.kind = "dir" THEN UnreadableDirs(PathJoin(path, c.name), c)
               ELSE {}
               : c \in Range(dir.children) }

\* How often entry e occurs in the scans of the files F.
RECURSIVE OccurrencesIn(_, _)
OccurrencesIn(F, e) ==
  IF F = {} THEN 0
  ELSE LET f == CHOOSE f \in F : TRUE
       IN  Count(scan_file(f.node).entries, e) + OccurrencesIn(F \ {f}, e)

\* The md files of the scanned tree that scan successfully.
GoodFiles == {f \in MdFilesUnder(scan_dir.name, scan_dir) : scan_file(f.node).ok}

\* C20: when scan_files returns, its entries are exactly the entries of the
\* md files that scan successfully, each as often as those files yield it,
\* whichever other files and directories fail; each file that fails and
\* each directory that cannot be read has exactly one error against its
\* path, a StatIOError for the directory; and the entries of one file keep
\* their line order.
C20_WalkIsolatesFailures ==
  Returned(walker) =>
    /\ \A e \in Range(walker.ok) \cup UNION {Range(scan_file(f.node).entries) : f \in GoodFiles} :
         Count(walker.ok, e) = OccurrencesIn(GoodFiles, e)
    /\ \A f \in GoodFiles :
         \E k \in 0..Len(walker.ok) :
           SubSeq(walker.ok, k + 1, k + Len(scan_file(f.node).entries))
             = scan_file(f.node).entries
    /\ \A p \in FailedFiles(scan_dir) : Cardinality(ErrorsAt(walker.err, p)) = 1
    /\ \A p \in UnreadableDirs(scan_dir.name, scan_dir) :
         /\ Cardinality(ErrorsAt(walker.err, p)) = 1
         /\ \A k \in ErrorsAt(walker.err, p) : walker.err[k].kind = "StatIOError"

\* The walk has returned from a tree in which an unreadable subdirectory was
\* visited before a readable one: one StatIOError, and the entries of the
\* file in the readable one.
C20_Witness ==
  /\ Returned(walker)
  /\ Len(scan_dir.children) >= 2
  /\ scan_dir.children[1].kind = "dir" /\ scan_dir.children[1].readable
  /\ scan_dir.children[2].kind = "dir" /\ ~scan_dir.children[2].readable
  /\ walker.ok # <<>>
  /\ walker.err = <<RoundupError(PathJoin(scan_dir.name, scan_dir.children[2].name),
                                  "StatIOError")>>

\* C21: every entry scan_file yields has the read state of the first
\* (leftmost) tag of its line, and as body all that follows that tag and the
\* spaces and colons after it.
C21_LeftmostTagCaptured ==
  \A k \in 1..Len(walker.ok) :
    LET pieces == Pieces(walker.ok[k].original_text)
        tags == {i \in 1..Len(pieces) : pieces[i] \in TagPieces}
        leftmost == CaptureAt(pieces, CHOOSE i \in tags : \A j \in tags : i <= j)
    IN  /\ walker.ok[k].read = ReadOfTag(leftmost.tag)
        /\ walker.ok[k].body_text = leftmost.body

C1_UrlUnique ==
  \A i, j \in 1..Len(reading_list) :
    reading_list[i].url = reading_list[j].url => i = j

\* An Update has ingested two entries that share one url, and the catalog
\* holds that url.
C1_Witness ==
  \E t \in Tasks :
    /\ pc[t] = "done" /\ local[t].op = "Update" /\ local[t].ok
    /\ Len(local[t].entries) = 2
    /\ local[t].entries[1] # local[t].entries[2]
    /\ UriToString(local[t].entries[1].url) = UriToString(local[t].entries[2].url)
    /\ UriToString(local[t].entries[1].url) \in RowUrls(reading_list)

\* C2: every entry id referenced by a roundup_contents row is the id of a
\* reading_list row, in every reachable state.
C2_RefIntegrity ==
  \A k \in 1..Len(roundup_contents) :
    roundup_contents[k].entry \in RowIds(reading_list)

\* C3 as claimed: each pair (date, entry) is held by at most one row of
\* roundup_contents, in every reachable state.
C3_PairOnce ==
  \A i, j \in 1..Len(roundup_contents) :
    roundup_contents[i] = roundup_contents[j] => i = j

\* The step on which task t's SetRoundup commits.
SetRoundupCommits(t) ==
  pc[t] = "sr_tx" /\ pc'[t] = "done" /\ local'[t].ok

\* C3 as amended: when SetRoundup(D, ids) commits, each pair (D, id) is held
\* by exactly as many rows as id occurs in ids; so by at most one row when
\* ids carries no id twice.
C3_PairPerOccurrence ==
  [][\A t \in Tasks :
       SetRoundupCommits(t) =>
         \A id \in IdArgs :
           Count(Membership(roundup_contents', local[t].date), id)
             = Count(local[t].articles, id)]_vars

\* A SetRoundup over a date that had a member has committed two distinct ids,
\* and the date now holds each of them once.
C3_Witness ==
  \E t \in Tasks :
    /\ pc[t] = "done" /\ local[t].op = "SetRoundup" /\ local[t].ok
    /\ Len(local[t].articles) = 2
    /\ local[t].articles[1] # local[t].articles[2]
    /\ Membership(roundup_contents, local[t].date) = local[t].articles
    /\ local[t].date = "2024-03-01"
    /\ \E s \in InitStores : s.rc # <<>> /\ reading_list = s.rl

\* The step on which task t runs roundup::insert over `entries`.
IngestStep(t) == pc[t] = "upd_counted" /\ pc'[t] = "upd_inserted"

\* The first entry of a sequence stored under url text u.
FirstWithUrl(entries, u) ==
  entries[CHOOSE i \in 1..Len(entries) :
            /\ UriToString(entries[i].url) = u
            /\ \A j \in 1..(i - 1) : UriToString(entries[j].url) # u]

\* C4: BulkIngest changes no column of a row whose url is already present,
\* and a url new to the catalog gets the fields of the first entry of the
\* call that carries it.
C4_IngestKeepsRows ==
  [][\A t \in Tasks :
       IngestStep(t) =>
         /\ \A i \in 1..Len(reading_list) :
              /\ i <= Len(reading_list')
              /\ reading_list'[i] = reading_list[i]
         /\ \A i \in (Len(reading_list) + 1)..Len(reading_list') :
              reading_list'[i] =
                RowOf(FirstWithUrl(local[t].entries, reading_list'[i].url),
                      reading_list'[i].id)]_vars

\* An ingest of two different entries with one url has run: the url was new
\* and its row holds the first entry's fields, beside an older row.
C4_Witness ==
  \E t \in Tasks :
    /\ pc[t] = "upd_inserted"
    /\ Len(local[t].entries) = 2
    /\ local[t].entries[1].source_date # local[t].entries[2].source_date
    /\ UriToString(local[t].entries[1].url) = UriToString(local[t].entries[2].url)
    /\ UriToString(local[t].entries[1].url) \notin local[t].pre_urls
    /\ local[t].pre_urls # {}
    /\ \E r \in Range(reading_list) :
         /\ r.url = UriToString(local[t].entries[1].url)
         /\ r.source_date = local[t].entries[1].source_date
         /\ r.read = local[t].entries[1].read

\* C7: when SetRoundup(D, I) commits, the entries GetRoundup(D) reports as
\* included are exactly the ids of I.
C7_GetRoundupReportsI ==
  [][\A t \in Tasks :
       SetRoundupCommits(t) =>
         IncludedIds(render_roundup(reading_list', roundup_contents', local[t].date))
           = Range(local[t].articles)]_vars

ReadOps == {"GetRoundup", "ComposeRoundupMarkdown", "ListRoundups",
            "ListRoundupsByEntry", "ListEntries", "GetEntry"}

\* The step on which task t runs its read query.
ReadStep(t) == pc[t] = "locked" /\ pc'[t] = "done" /\ local'[t].op \in ReadOps

\* roundup_contents as last committed.
CommittedContents == IF journal # None THEN journal[1].rc ELSE roundup_contents

\* C9: the membership of each date that a read query finds is the last
\* committed one, or the complete new one of a SetRoundup in progress on that
\* date; never the rows after the delete and before the last insert.
C9_ReadersSeeWholeRoundups ==
  [][\A t \in Tasks :
       ReadStep(t) =>
         \A d \in Dates :
           \/ Membership(roundup_contents, d) = Membership(CommittedContents, d)
           \/ \E w \in Tasks :
                /\ pc[w] = "sr_tx" /\ local[w].date = d
                /\ Membership(roundup_contents, d) = local[w].articles]_vars

\* A GetRoundup(D) has answered with the prior members of D while a
\* SetRoundup on D is between its delete and its last insert: the rows of D
\* on the connection are neither the prior nor the new membership.
C9_Witness ==
  \E w, t \in Tasks :
    /\ pc[w] = "sr_tx" /\ journal # None
    /\ Membership(roundup_contents, local[w].date) # Membership(journal[1].rc, local[w].date)
    /\ Membership(roundup_contents, local[w].date) # local[w].articles
    /\ pc[t] = "done" /\ local[t].op = "GetRoundup" /\ local[t].date = local[w].date
    /\ IncludedIds(local[t].rows) = Range(Membership(journal[1].rc, local[w].date))
    /\ IncludedIds(local[t].rows) # {}

\* C10: from the pre-count to the commit of an Update no other request
\* changes the store, and the committed Update's post-count minus pre-count
\* is the number of distinct scanned urls that were absent at the pre-count.
C10_UpdateCountsAtomic ==
  \A t \in Tasks :
    /\ pc[t] = "upd_counted" =>
         /\ RowUrls(reading_list) = local[t].pre_urls
         /\ count_urls(reading_list) = local[t].count_pre
    /\ pc[t] = "upd_inserted" =>
         RowUrls(reading_list) = local[t].pre_urls \cup EntryUrls(local[t].entries)
    /\ (pc[t] = "done" /\ local[t].op = "Update" /\ local[t].ok) =>
         local[t].count_post - local[t].count_pre
           = Cardinality(EntryUrls(local[t].entries) \ local[t].pre_urls)

\* An Update has inserted a scan of two urls, one of them stored before the
\* pre-count, while another request is waiting for the lock.
C10_Witness ==
  \E t, u \in Tasks :
    /\ pc[t] = "upd_inserted" /\ pc[u] = "waiting"
    /\ Cardinality(EntryUrls(local[t].entries)) = 2
    /\ Cardinality(EntryUrls(local[t].entries) \ local[t].pre_urls) = 1
    /\ count_urls(reading_list) = local[t].count_pre + 1

\* The positions at which a handler holds the MutexGuard, and so the
\* connection.
Holding == {"locked", "sr_tx", "upd_locked", "upd_counted", "upd_inserted"}

\* C11: at every moment at most one request task holds the store handle, and
\* that task is the holder of the mutex; no two operations run against the
\* connection at the same time.
C11_SingleHolder ==
  \A t, u \in Tasks :
    (pc[t] \in Holding /\ pc[u] \in Holding) => (t = u /\ mutex = t)

\* A SetRoundup is inside its transaction while another request, already
\* accepted, waits for the lock.
C11_Witness ==
  \E t, u \in Tasks :
    /\ pc[t] = "sr_tx" /\ mutex = t
    /\ pc[u] = "waiting"

\* The operations that run a transaction.
TxOps == {"Update", "CreateEntry", "SetRoundup"}

\* The step on which task t's transactional operation reports a store error.
StoreErrorStep(t) ==
  /\ pc[t] # "done" /\ pc'[t] = "done"
  /\ local'[t].op \in TxOps
  /\ ~local'[t].ok /\ local'[t].err = "SqlError"

\* The tables as they were when the operation now running began: those of
\* its BEGIN, as the lock is held from before the BEGIN.
TablesAtBegin ==
  IF journal # None THEN journal[1]
  ELSE [rl |-> reading_list, rc |-> roundup_contents]

\* C12 as claimed: whenever Update's bulk ingest, CreateEntry or SetRoundup
\* reports a store error, reading_list and roundup_contents are exactly as
\* they were before the operation began.
C12_StoreErrorNoChange ==
  [][\A t \in Tasks :
       StoreErrorStep(t) =>
         /\ reading_list' = TablesAtBegin.rl
         /\ roundup_contents' = TablesAtBegin.rc]_vars

\* The step on which task t's CreateEntry reports the error of its id
\* lookup, the SELECT that follows the commit.
LookupErrorStep(t) ==
  /\ StoreErrorStep(t)
  /\ local'[t].op = "CreateEntry" /\ local'[t].at = "lookup"

\* C12 as amended: a store error reported from inside the transaction of
\* Update, CreateEntry or SetRoundup leaves both tables as they were before
\* the operation began; the store error of CreateEntry's id lookup, which
\* runs after the commit, leaves the committed insert of the scanned entry
\* in place.
C12_TxErrorNoChange ==
  [][\A t \in Tasks :
       /\ (StoreErrorStep(t) /\ ~LookupErrorStep(t)) =>
            /\ reading_list' = TablesAtBegin.rl
            /\ roundup_contents' = TablesAtBegin.rc
       /\ LookupErrorStep(t) =>
            /\ roundup_contents' = roundup_contents
            /\ \E now \in Dates :
                 /\ scan_body(now, local'[t].body).ok
                 /\ reading_list' =
                      insert(<<scan_body(now, local'[t].body).entry>>, reading_list)]_vars

\* An Update has reported a store error after its scan brought a url that
\* was not stored at the pre-count, and the catalog holds the urls of the
\* pre-count only.
C12_Witness ==
  \E t \in Tasks :
    /\ pc[t] = "done" /\ local[t].op = "Update"
    /\ ~local[t].ok /\ local[t].err = "SqlError"
    /\ EntryUrls(local[t].entries) \ local[t].pre_urls # {}
    /\ RowUrls(reading_list) = local[t].pre_urls
    /\ journal = None

\* reading_list as last committed.
CommittedList == IF journal # None THEN journal[1].rl ELSE reading_list

\* C13: an Update whose scan reported errors still runs the bulk insert over
\* every entry of the files that scanned successfully and commits it, and
\* its response carries the commit outcome together with the scan errors,
\* one for each file that failed.
C13_UpdateCommitsDespiteScanErrors ==
  \A t \in Tasks :
    (local[t].op = "Update" /\ local[t].errors # <<>>) =>
      /\ pc[t] = "upd_inserted" => GoodUrls(local[t].dir) \subseteq RowUrls(reading_list)
      /\ (pc[t] = "done" /\ local[t].ok) =>
           /\ GoodUrls(local[t].dir) \subseteq RowUrls(CommittedList)
           /\ local[t].count_post = local[t].count_pre
                + Cardinality(GoodUrls(local[t].dir) \ local[t].pre_urls)
      /\ pc[t] = "done" =>
           FailedFiles(local[t].dir)
             \subseteq {local[t].errors[k].file : k \in 1..Len(local[t].errors)}

\* An Update over a tree with a good file and a file whose stem is no date
\* has committed: one InvalidFile error in the response, and the good
\* file's entry newly stored.
C13_Witness ==
  \E t \in Tasks :
    /\ pc[t] = "done" /\ local[t].op = "Update" /\ local[t].ok
    /\ Len(local[t].errors) = 1 /\ local[t].errors[1].kind = "InvalidFile"
    /\ Len(local[t].entries) = 1
    /\ local[t].count_post = local[t].count_pre + 1
    /\ UriToString(local[t].entries[1].url) \in RowUrls(reading_list)

\* The step on which task t's UpdateEntry runs its UPDATE.
UpdateEntryStep(t) ==
  pc[t] = "locked" /\ pc'[t] = "done" /\ local'[t].op = "UpdateEntry"

\* The rows present both before and after a step.
KeptRows == 1..(IF Len(reading_list) <= Len(reading_list')
                THEN Len(reading_list) ELSE Len(reading_list'))

\* C15: on every step of every operation a stored row keeps its url,
\* source_date and original_text, and so holds the values it was created
\* with; its body_text or read changes only on the step of an UpdateEntry
\* for its id.
C15_CreationColumnsKept ==
  [][\A i \in KeptRows :
       /\ reading_list'[i].url = reading_list[i].url
       /\ reading_list'[i].source_date = reading_list[i].source_date
       /\ reading_list'[i].original_text = reading_list[i].original_text
       /\ (\/ reading_list'[i].body_text # reading_list[i].body_text
           \/ reading_list'[i].read # reading_list[i].read) =>
            \E t \in Tasks :
              UpdateEntryStep(t) /\ local'[t].id = reading_list[i].id]_vars

\* An UpdateEntry has rewritten the body of a stored row, whose
\* original_text is still the scanned line.
C15_Witness ==
  \E t \in Tasks :
    /\ pc[t] = "done" /\ local[t].op = "UpdateEntry"
    /\ \E r \in Range(reading_list) :
         /\ r.id = local[t].id
         /\ r.body_text \in EditBodies
         /\ r.original_text = "- #reading [A](http://a)"

\* C16: no operation removes a row of the catalog or changes its id: every
\* committed (id, url) row is, at the same place, in every later committed
\* state, so the committed entry count never decreases. (Rows a transaction
\* has inserted and not committed are not yet in the catalog; a rollback
\* takes those away and nothing else.)
C16_RowsStay ==
  [][/\ Len(CommittedList') >= Len(CommittedList)
     /\ \A i \in 1..Len(CommittedList) :
          /\ CommittedList'[i].id = CommittedList[i].id
          /\ CommittedList'[i].url = CommittedList[i].url]_vars

\* A committed Update met a url that was stored before it and added another:
\* the catalog holds two rows or more, the older first.
C16_Witness ==
  \E t \in Tasks :
    /\ pc[t] = "done" /\ local[t].op = "Update" /\ local[t].ok
    /\ EntryUrls(local[t].entries) \cap local[t].pre_urls # {}
    /\ local[t].count_post > local[t].count_pre
    /\ journal = None
    /\ Len(reading_list) >= 2
    /\ reading_list[1].url \in local[t].pre_urls

\* The step on which task t's CreateEntry returns an id.
CreateEntryReturns(t) ==
  /\ pc[t] = "locked" /\ pc'[t] = "done"
  /\ local'[t].op = "CreateEntry" /\ local'[t].ok

\* The url text a body is stored under: that of its first link.
StoredUrlOf(body) == UriToString(find_url(to_mdast(body))[1])

\* C17: a CreateEntry that returns an id returns the id of the row stored
\* under the url of the body's link: with the url absent, one row is added
\* under it with an id no row had, and that id returned; with the url
\* present, reading_list is untouched and the id of the row already stored
\* under it is returned.
C17_CreateEntryReturnsRowId ==
  [][\A t \in Tasks :
       CreateEntryReturns(t) =>
         LET u == StoredUrlOf(local'[t].body)
         IN  /\ \E r \in Range(reading_list') : r.url = u /\ r.id = local'[t].id
             /\ u \in RowUrls(reading_list) =>
                  /\ reading_list' = reading_list
                  /\ \E r \in Range(reading_list) : r.url = u /\ r.id = local'[t].id
             /\ u \notin RowUrls(reading_list) =>
                  /\ Len(reading_list') = Len(reading_list) + 1
                  /\ SubSeq(reading_list', 1, Len(reading_list)) = reading_list
                  /\ reading_list'[Len(reading_list')].id = local'[t].id
                  /\ local'[t].id \notin RowIds(reading_list)]_vars

\* A CreateEntry with the link http://a has returned the id of the row that
\* was stored, from a journal line, under http://a/ ; no row was added.
C17_Witness ==
  \E t \in Tasks :
    /\ pc[t] = "done" /\ local[t].op = "CreateEntry" /\ local[t].ok
    /\ local[t].body = "[A](http://a)"
    /\ Len(reading_list) = 1
    /\ reading_list[1].id = local[t].id
    /\ reading_list[1].url = "http://a/"
    /\ reading_list[1].original_text = "- #reading [A](http://a)"

\* C18: an UpdateEntry whose id no row of reading_list has reports success
\* and leaves every row of reading_list and of roundup_contents as it was.
C18_UpdateMissingIdNoChange ==
  [][\A t \in Tasks :
       (UpdateEntryStep(t) /\ local'[t].id \notin RowIds(reading_list)) =>
         /\ local'[t].ok
         /\ reading_list' = reading_list
         /\ roundup_contents' = roundup_contents]_vars

\* An UpdateEntry for an id that no row has has answered with success, the
\* catalog holding a row, of another id, with its scanned body.
C18_Witness ==
  \E t \in Tasks :
    /\ pc[t] = "done" /\ local[t].op = "UpdateEntry" /\ local[t].ok
    /\ local[t].id \notin RowIds(reading_list)
    /\ reading_list # <<>>
    /\ \A r \in Range(reading_list) : r.body_text \notin EditBodies

\* C23: every request that tries to acquire the store lock eventually
\* acquires it: whatever the outcome of the operations before it, the lock is
\* released in a state in which the request can take it.
C23_EveryLockRequestAcquires ==
  \A t \in Tasks : (pc[t] \in {"waiting", "upd_scanned"}) ~> (mutex = t)

\* C24: every ComposeRoundupMarkdown(D) succeeds, and what it writes after
\* the front-matter is the body_text of exactly the entries that are members
\* of D, each once and each followed by a blank line.
C24_MarkdownListsMembersOnce ==
  [][\A t \in Tasks :
       (pc[t] = "locked" /\ pc'[t] = "done"
          /\ local'[t].op = "ComposeRoundupMarkdown") =>
         LET members == {r \in Range(reading_list) :
                           \E m \in Range(roundup_contents) :
                             m.date = local'[t].date /\ m.entry = r.id}
         IN  /\ local'[t].ok
             /\ \E order \in [1..Cardinality(members) -> members] :
                  /\ \A r \in members : \E i \in DOMAIN order : order[i] = r
                  /\ local'[t].text =
                       front_matter(local'[t].date)
                         \o write_bodies([i \in DOMAIN order |-> order[i].body_text], 1)]_vars

\* C25 as claimed: the rows GetRoundup(D) returns hold every reading_list row
\* exactly once.
C25_EachRowOnce ==
  [][\A t \in Tasks :
       (pc[t] = "locked" /\ pc'[t] = "done" /\ local'[t].op = "GetRoundup") =>
         /\ Len(local'[t].rows) = Len(reading_list)
         /\ \A r \in Range(reading_list) :
              \E i \in 1..Len(local'[t].rows) : local'[t].rows[i].entry = r]_vars

\* C25 as amended: the rows GetRoundup(D) returns hold every reading_list row
\* at least once: once for each roundup_contents row (D, id) of its id, and
\* once when there is none; so exactly once unless SetRoundup stored the id
\* twice under D.
C25_RowPerMembershipRow ==
  [][\A t \in Tasks :
       (pc[t] = "locked" /\ pc'[t] = "done" /\ local'[t].op = "GetRoundup") =>
         /\ \A i \in 1..Len(local'[t].rows) :
              local'[t].rows[i].entry \in Range(reading_list)
         /\ \A r \in Range(reading_list) :
              LET n == Count(Membership(roundup_contents, local'[t].date), r.id)
                  shown == Cardinality({i \in 1..Len(local'[t].rows) :
                                          local'[t].rows[i].entry = r})
              IN  shown = IF n = 0 THEN 1 ELSE n]_vars

\* GetRoundup(D) has returned the one stored entry twice, D holding its id
\* twice.
C25_Witness ==
  \E t \in Tasks :
    /\ pc[t] = "done" /\ local[t].op = "GetRoundup"
    /\ Len(reading_list) = 1
    /\ Len(local[t].rows) = 2
    /\ local[t].rows[1].entry = local[t].rows[2].entry
    /\ Count(Membership(roundup_contents, local[t].date), reading_list[1].id) = 2

\* C26 as claimed: in every reachable state and for every stored entry, the
\* count GetEntry returns is the count ListEntries and GetRoundup report.
C26_CountsAgree ==
  \A r \in Range(reading_list) :
    LET one == render_article(reading_list, roundup_contents, r.id).count
        listed == list_articles(reading_list, roundup_contents)
    IN  /\ \A i \in 1..Len(listed) : listed[i].id = r.id => listed[i].count = one
        /\ \A date \in Dates :
             LET rows == render_roundup(reading_list, roundup_contents, date)
             IN  \A i \in 1..Len(rows) : rows[i].id = r.id => rows[i].count = one

\* C26 as amended: ListEntries and GetRoundup report the same count for every
\* stored entry, the number of distinct dates that reference it; GetEntry
\* returns the number of roundup_contents rows that reference it, which is the
\* same number exactly when no date holds the entry twice.
C26_CountsAgreeUnlessRepeated ==
  \A r \in Range(reading_list) :
    LET one == render_article(reading_list, roundup_contents, r.id).count
        listed == list_articles(reading_list, roundup_contents)
        refs == RefsOf(roundup_contents, r.id)
        dates == {refs[i].date : i \in 1..Len(refs)}
        repeated == \E i, j \in 1..Len(refs) : i # j /\ refs[i].date = refs[j].date
    IN  /\ \A i \in 1..Len(listed) :
             listed[i].id = r.id => listed[i].count = Cardinality(dates)
        /\ \A date \in Dates :
             LET rows == render_roundup(reading_list, roundup_contents, date)
             IN  \A i \in 1..Len(rows) :
                   rows[i].id = r.id => rows[i].count = Cardinality(dates)
        /\ one = Len(refs)
        /\ (one = Cardinality(dates)) <=> ~repeated

\* A stored entry is held twice by one date: GetEntry has returned 2 for it
\* where ListEntries reports 1.
C26_Witness ==
  \E t \in Tasks :
    /\ pc[t] = "done" /\ local[t].op = "GetEntry" /\ local[t].ok
    /\ local[t].count = 2
    /\ \E r \in Range(reading_list) :
         /\ r.id = local[t].id
         /\ render_article(reading_list, roundup_contents, r.id).count = 2
         /\ \E i \in 1..Len(reading_list) :
              /\ list_articles(reading_list, roundup_contents)[i].id = r.id
              /\ list_articles(reading_list, roundup_contents)[i].count = 1

\* C27: SetRoundup(D, ids) changes no roundup_contents row whose date is not
\* D and no reading_list row: not on any of its statements, and not from its
\* BEGIN to its end, whether that is the commit or an error return.
C27_SetRoundupTouchesOnlyItsDate ==
  [][\A t \in Tasks :
       LET OtherDates(rc, date) == SelectSeq(rc, LAMBDA r : r.date # date)
       IN  /\ (pc'[t] = "sr_tx") =>
                /\ reading_list' = reading_list
                /\ OtherDates(roundup_contents', local'[t].date)
                     = OtherDates(roundup_contents, local'[t].date)
           /\ (pc[t] = "sr_tx" /\ pc'[t] = "done") =>
                /\ reading_list' = journal[1].rl
                /\ OtherDates(roundup_contents', local'[t].date)
                     = OtherDates(journal[1].rc, local'[t].date)]_vars

\* A SetRoundup has committed ids for one date and another SetRoundup has
\* failed, while the catalog holds an entry and another date holds a member.
C27_Witness ==
  \E t, u \in Tasks :
    /\ pc[t] = "done" /\ local[t].op = "SetRoundup" /\ local[t].ok
    /\ pc[u] = "done" /\ local[u].op = "SetRoundup" /\ ~local[u].ok
    /\ local[t].articles # <<>> /\ local[u].articles # <<>>
    /\ local[t].date = "2024-03-02"
    /\ Membership(roundup_contents, "2024-03-02") = local[t].articles
    /\ Membership(roundup_contents, "2024-03-01") # <<>>
    /\ reading_list # <<>>

(***************************************************************************)
(* Properties of the operations run one after the other (SpecSeq)          *)
(***************************************************************************)

\* The caller's last two calls were the same call, of operation op.
SameCallTwice(op) ==
  /\ Len(seq_log) >= 2
  /\ seq_log[Len(seq_log)].op = op
  /\ seq_log[Len(seq_log) - 1].op = op
  /\ seq_log[Len(seq_log)] = seq_log[Len(seq_log) - 1]

\* C5: BulkIngest(X) run a second time right after BulkIngest(X) leaves
\* reading_list, every row and column, as the first run left it.
C5_BulkIngestIdempotent ==
  SameCallTwice("BulkIngest") => seq_store.rl = seq_prev.rl

\* BulkIngest(X) has run twice in a row with X of two urls, so that the
\* second run met both urls stored.
C5_Witness ==
  /\ SameCallTwice("BulkIngest")
  /\ Cardinality(EntryUrls(seq_log[Len(seq_log)].entries)) = 2
  /\ Len(seq_store.rl) = 2

\* C8: SetRoundup(D, I) run a second time right after SetRoundup(D, I) leaves
\* roundup_contents as the first run left it.
C8_SetRoundupIdempotent ==
  SameCallTwice("SetRoundup") => seq_store.rc = seq_prev.rc

\* SetRoundup(D, I) has run twice in a row with two ids in I, beside rows of
\* another date.
C8_Witness ==
  /\ SameCallTwice("SetRoundup")
  /\ Len(seq_log[Len(seq_log)].articles) = 2
  /\ Len(seq_store.rc) = 3

\* The caller's last call.
LastCall == seq_log[Len(seq_log)]

\* The entries of a sequence that carry url text u and a read
\* classification (#tbr or #read).
Classified(entries, u) ==
  {e \in Range(entries) : UriToString(e.url) = u /\ e.read # None}

\* C14 as claimed: when BulkIngest presents a classified entry whose url is
\* already stored, the stored row takes the tag's read value if its own read
\* value is unknown.
C14_TagAppliedWhenUnknown ==
  (seq_log # <<>> /\ LastCall.op = "BulkIngest") =>
    \A i \in 1..Len(seq_prev.rl) :
      (seq_prev.rl[i].read = None
         /\ Classified(LastCall.entries, seq_prev.rl[i].url) # {}) =>
        seq_store.rl[i].read
          \in {e.read : e \in Classified(LastCall.entries, seq_prev.rl[i].url)}

\* C14 as amended: ingestion (BulkIngest, CreateEntry) leaves the read value
\* of every stored row as it is, unknown or not; the tag's classification is
\* the read value only of a row the ingestion creates, taken from the first
\* entry with that url; UpdateEntry sets read of the row of its id to the
\* value it is given, whatever the row held.
C14_IngestKeepsRead ==
  seq_log # <<>> =>
    /\ LastCall.op \in {"BulkIngest", "CreateEntry"} =>
         \A i \in 1..Len(seq_prev.rl) : seq_store.rl[i].read = seq_prev.rl[i].read
    /\ LastCall.op = "BulkIngest" =>
         \A i \in (Len(seq_prev.rl) + 1)..Len(seq_store.rl) :
           seq_store.rl[i].read
             = FirstWithUrl(LastCall.entries, seq_store.rl[i].url).read
    /\ LastCall.op = "UpdateEntry" =>
         \A i \in 1..Len(seq_store.rl) :
           seq_store.rl[i].read =
             IF seq_prev.rl[i].id = LastCall.id
             THEN LastCall.read ELSE seq_prev.rl[i].read

\* A BulkIngest has presented a #read entry for a url whose stored row has
\* read unknown, and the row's read is unknown still.
C14_Witness ==
  /\ seq_log # <<>> /\ LastCall.op = "BulkIngest"
  /\ \E i \in 1..Len(seq_prev.rl) :
       /\ seq_prev.rl[i].read = None
       /\ \E e \in Classified(LastCall.entries, seq_prev.rl[i].url) :
            e.read = Some(TRUE)
       /\ seq_store.rl[i].read = None

(***************************************************************************)
(* Properties of the pair of stores (SpecPair)                             *)
(***************************************************************************)

\* C6 as claimed: two sequences of BulkIngest calls that carry the same
\* multiset of urls leave the same rows in reading_list, up to row order.
C6_SameUrlsSameRows ==
  pair_a.urls = pair_b.urls => Range(pair_a.rl) = Range(pair_b.rl)

\* The bag of url texts the urls of a bag are stored under.
StoredUrlBag(urls) ==
  [t \in {UriToString(u) : u \in EntryUris} |->
     LET RECURSIVE Sum(_)
         Sum(S) == IF S = {} THEN 0
                   ELSE LET x == CHOOSE x \in S : TRUE
                        IN  urls[x] + Sum(S \ {x})
     IN  Sum({u \in EntryUris : UriToString(u) = t})]

\* C6 as amended: two sequences of BulkIngest calls that carry the same
\* multiset of urls leave reading_list with the same number of rows and the
\* same set of url values; the other columns of a row (and its id) are those
\* given by the first entry ingested under that url, and may differ.
C6_SameUrlsSameUrlColumn ==
  StoredUrlBag(pair_a.urls) = StoredUrlBag(pair_b.urls) =>
    /\ RowUrls(pair_a.rl) = RowUrls(pair_b.rl)
    /\ Len(pair_a.rl) = Len(pair_b.rl)

\* Both stores have ingested the same two urls, in calls that differ, and
\* hold two rows each with the same urls but not the same rows.
C6_Witness ==
  /\ pair_a.urls = pair_b.urls
  /\ \A u \in EntryUris : pair_a.urls[u] <= 1
  /\ Cardinality({u \in EntryUris : pair_a.urls[u] = 1}) = 2
  /\ Len(pair_a.rl) = 2 /\ Len(pair_b.rl) = 2
  /\ RowUrls(pair_a.rl) = RowUrls(pair_b.rl)
  /\ Range(pair_a.rl) # Range(pair_b.rl)

====
